---------------------------- MODULE Spec2Model ----------------------------
(***************************************************************************)
(* Model of src/lib.rs: Settings::get_settings, get_sql_settings and       *)
(* get_email_destinations.                                                 *)
(*                                                                         *)
(* A Rust String is a sequence of one-character strings.  The value of an  *)
(* environment variable is unset, not valid unicode, or a text; a text is  *)
(* modelled by its JSON syntax tree, the string literals of the tree kept  *)
(* in their raw (escaped) spelling, so that deserialization has to decode  *)
(* them and serialization has to escape them.                              *)
(***************************************************************************)
EXTENDS Integers, Sequences, FiniteSets, TLC

VARIABLES env, pc, secret_blob, result, sql_settings, email_destinations,
          json, reparsed, seen

vars == <<env, pc, secret_blob, result, sql_settings, email_destinations,
          json, reparsed, seen>>

(***************************************************************************)
(* Bounds                                                                  *)
(***************************************************************************)
\* longest raw string literal tried as a value inside the blob
MaxRawLen == 2
\* longest email_to_addresses string tried by the split specification
MaxAddrLen == 4
\* longest field value tried by the database-config specification
MaxHostLen == 2
\* longest field value tried by the round-trip specification
MaxValueLen == 3

Callers == {1, 2}

None == [some |-> FALSE]
Some(v) == [some |-> TRUE, v |-> v]

StringsUpTo(A, n) == UNION {[1..k -> A] : k \in 0..n}

DigitChars == <<"0", "1", "2", "3", "4", "5", "6", "7", "8", "9">>

RECURSIVE ToDecimal(_)
\* Display for an unsigned integer: its decimal digits.
ToDecimal(n) ==
    IF n < 10 THEN <<DigitChars[n + 1]>>
    ELSE ToDecimal(n \div 10) \o <<DigitChars[(n % 10) + 1]>>

(***************************************************************************)
(* struct Settings and its serde schema                                    *)
(***************************************************************************)
\* The fields of Settings in declaration order.
FieldOrder ==
    <<"database_server", "database_name", "database_username",
      "database_password", "log_webhook_uri", "sendgrid_api_key",
      "email_from_name", "email_from_address", "email_to_addresses">>

Fields == {FieldOrder[i] : i \in 1..Len(FieldOrder)}

\* mutant of PascalCase: the attribute forgotten, keys are the field names
SnakeCase(f) == f

\* #[serde(rename_all = "PascalCase")]: the JSON key of a field.
PascalCase(f) ==
    CASE f = "database_server"    -> "DatabaseServer"
      [] f = "database_name"      -> "DatabaseName"
      [] f = "database_username"  -> "DatabaseUsername"
      [] f = "database_password"  -> "DatabasePassword"
      [] f = "log_webhook_uri"    -> "LogWebhookUri"
      [] f = "sendgrid_api_key"   -> "SendgridApiKey"
      [] f = "email_from_name"    -> "EmailFromName"
      [] f = "email_from_address" -> "EmailFromAddress"
      [] f = "email_to_addresses" -> "EmailToAddresses"

\* The field a JSON key names, if any (the derived field-identifier visitor).
FieldOfKey(k) ==
    IF \E f \in Fields : PascalCase(f) = k
    THEN Some(CHOOSE f \in Fields : PascalCase(f) = k)
    ELSE None

(***************************************************************************)
(* JSON string literals: raw spelling <-> value                            *)
(***************************************************************************)
\* "NL" stands for the line-feed character, a control character.
Quote == "\""
Backslash == "\\"

Ok(v) == [tag |-> "Ok", val |-> v]
Err(m) == [tag |-> "Err", msg |-> m]

RECURSIVE UnescapeFrom(_, _, _)
\* serde_json's string parsing from position i of the raw spelling.
UnescapeFrom(raw, i, acc) ==
    IF i > Len(raw) THEN Ok(acc)
    ELSE IF raw[i] = Quote
        THEN Err(<<"expected , or }">>)
    ELSE IF raw[i] = "NL"
        THEN Err(<<"control character (\\u0000-\\u001F) found while parsing a string">>)
    ELSE IF raw[i] = Backslash
        THEN IF i = Len(raw)
             THEN Err(<<"EOF while parsing a string">>)
             ELSE IF raw[i + 1] = Quote
                  THEN UnescapeFrom(raw, i + 2, Append(acc, Quote))
             ELSE IF raw[i + 1] = Backslash
                  THEN UnescapeFrom(raw, i + 2, Append(acc, Backslash))
             ELSE IF raw[i + 1] = "n"
                  THEN UnescapeFrom(raw, i + 2, Append(acc, "NL"))
             ELSE Err(<<"invalid escape">>)
    ELSE UnescapeFrom(raw, i + 1, Append(acc, raw[i]))

\* The value of a raw string literal, or the parser's error.
Unescape(raw) == UnescapeFrom(raw, 1, <<>>)

\* mutant of EscapeChar: the backslash written unescaped
EscapeCharNoBackslash(c) ==
    IF c = Quote THEN <<Backslash, Quote>>
    ELSE IF c = "NL" THEN <<Backslash, "n">>
    ELSE <<c>>

\* serde_json's format_escaped_str, one character.
EscapeChar(c) ==
    IF c = Quote THEN <<Backslash, Quote>>
    ELSE IF c = Backslash THEN <<Backslash, Backslash>>
    ELSE IF c = "NL" THEN <<Backslash, "n">>
    ELSE <<c>>

RECURSIVE Escape(_)
\* The raw spelling serde_json writes for a string value.
Escape(s) == IF s = <<>> THEN <<>> ELSE EscapeChar(Head(s)) \o Escape(Tail(s))

(***************************************************************************)
(* JSON values and documents                                               *)
(***************************************************************************)
JString(raw) == [t |-> "string", raw |-> raw]
JNumber == [t |-> "number"]
JNull == [t |-> "null"]

Member(k, v) == [key |-> k, val |-> v]

ObjectDoc(members, trailing) ==
    [kind |-> "object", members |-> members, trailing |-> trailing]
ArrayDoc(elems, trailing) ==
    [kind |-> "array", elems |-> elems, trailing |-> trailing]
ScalarDoc(v) == [kind |-> "scalar", val |-> v]
\* a text that starts with no JSON value, such as "invalid json"
GarbageDoc == [kind |-> "garbage"]
\* the empty text
EmptyDoc == [kind |-> "empty"]

(***************************************************************************)
(* Deserialize for Settings (derived) driven by serde_json::from_str       *)
(***************************************************************************)
\* <String as Deserialize>::deserialize on one JSON value.
DeserializeString(v) ==
    IF v.t = "string" THEN Unescape(v.raw)
    ELSE Err(<<"invalid type: ", v.t, ", expected a string">>)

\* IgnoredAny: the value of an unknown key is parsed and dropped.
IgnoreValue(v) ==
    IF v.t = "string" THEN Unescape(v.raw) ELSE Ok(<<>>)

\* The first field in declaration order that the map did not supply.
FirstMissing(filled) ==
    FieldOrder[CHOOSE i \in 1..Len(FieldOrder) :
        /\ FieldOrder[i] \notin filled
        /\ \A j \in 1..(i - 1) : FieldOrder[j] \in filled]

RECURSIVE VisitMap(_, _, _, _)
\* The derived visit_map: members in document order; vals holds the fields
\* read so far, filled their names.
VisitMap(members, i, filled, vals) ==
    IF i > Len(members)
    THEN IF filled = Fields
         THEN Ok(vals)
         ELSE Err(<<"missing field ", PascalCase(FirstMissing(filled))>>)
    ELSE LET m == members[i]
             fk == FieldOfKey(m.key)
         IN  IF ~fk.some
             THEN LET ig == IgnoreValue(m.val)
                  IN  IF ig.tag = "Err" THEN ig
                      ELSE VisitMap(members, i + 1, filled, vals)
             ELSE IF fk.v \in filled
             THEN Err(<<"duplicate field ", m.key>>)
             ELSE LET s == DeserializeString(m.val)
                  IN  IF s.tag = "Err" THEN s
                      ELSE VisitMap(members, i + 1, filled \cup {fk.v},
                                    [vals EXCEPT ![fk.v] = s.val])

NoValues == [f \in Fields |-> <<>>]

RECURSIVE VisitSeq(_, _, _)
\* The derived visit_seq: the fields in declaration order from an array.
VisitSeq(elems, i, vals) ==
    IF i > Len(FieldOrder)
    THEN IF Len(elems) > Len(FieldOrder)
         THEN Err(<<"trailing characters">>)
         ELSE Ok(vals)
    ELSE IF i > Len(elems)
    THEN Err(<<"invalid length ">> \o ToDecimal(i - 1)
             \o <<", expected struct Settings with 9 elements">>)
    ELSE LET s == DeserializeString(elems[i])
         IN  IF s.tag = "Err" THEN s
             ELSE VisitSeq(elems, i + 1, [vals EXCEPT ![FieldOrder[i]] = s.val])

\* serde_json::from_str::<Settings>: deserialize_struct, then Deserializer::end.
FromStr(doc) ==
    CASE doc.kind = "garbage" -> Err(<<"expected value">>)
      [] doc.kind = "empty"   -> Err(<<"EOF while parsing a value">>)
      [] doc.kind = "scalar"  ->
            Err(<<"invalid type: ", doc.val.t, ", expected struct Settings">>)
      [] doc.kind = "object"  ->
            LET r == VisitMap(doc.members, 1, {}, NoValues)
            IN  IF r.tag = "Ok" /\ doc.trailing
                THEN Err(<<"trailing characters">>) ELSE r
      [] doc.kind = "array"   ->
            LET r == VisitSeq(doc.elems, 1, NoValues)
            IN  IF r.tag = "Ok" /\ doc.trailing
                THEN Err(<<"trailing characters">>) ELSE r

(***************************************************************************)
(* Serialize for Settings (derived) driven by serde_json::to_string        *)
(***************************************************************************)
\* The object serde_json writes: one member per field in declaration order.
ToJson(s) ==
    ObjectDoc([i \in 1..Len(FieldOrder) |->
                  Member(PascalCase(FieldOrder[i]),
                         JString(Escape(s[FieldOrder[i]])))],
              FALSE)

(***************************************************************************)
(* std::env                                                                *)
(***************************************************************************)
Unset == [state |-> "unset"]
NotUnicode == [state |-> "not unicode"]
Text(doc) == [state |-> "set", doc |-> doc]

\* mutant of VarErrorDisplay: the two messages exchanged
VarErrorDisplaySwapped(e) ==
    IF e = "NotPresent"
    THEN <<"environment variable was not valid unicode: ", "..">>
    ELSE <<"environment variable not found">>

\* Display for VarError, the text of e.to_string().
VarErrorDisplay(e) ==
    IF e = "NotPresent"
    THEN <<"environment variable not found">>
    ELSE <<"environment variable was not valid unicode: ", "..">>

\* std::env::var on one variable's value.
EnvVar(v) ==
    CASE v.state = "unset"       -> Err("NotPresent")
      [] v.state = "not unicode" -> Err("NotUnicode")
      [] v.state = "set"         -> Ok(v.doc)

EnvErrorPrefix == "Error getting env variable: "
ParseErrorPrefix == "Could not deserialize settings blob: "

\* The error kind a message belongs to, by its fixed prefix.
ErrorKind(msg) ==
    IF Head(msg) = EnvErrorPrefix THEN "EnvironmentError"
    ELSE IF Head(msg) = ParseErrorPrefix THEN "ParseError"
    ELSE "other"

(***************************************************************************)
(* tiberius::Config as get_sql_settings uses it                            *)
(***************************************************************************)
DefaultPort == 1433
BrowserPort == 1434

Localhost == <<"l", "o", "c", "a", "l", "h", "o", "s", "t">>
LoginChecker ==
    <<"L", "o", "g", "i", "n", " ", "C", "h", "e", "c", "k", "e", "r">>

\* Config::new(): nothing set, encryption required, default trust.
ConfigNew ==
    [host |-> None, port |-> None, database |-> None,
     instance_name |-> None, application_name |-> None,
     encryption |-> "Required", trust |-> "Default",
     auth |-> [method |-> "None"], panicked |-> FALSE]

\* mutant of SqlServer: user and password exchanged
SqlServerSwapped(user, password) ==
    [method |-> "SqlServer", user |-> password, password |-> user]

\* AuthMethod::sql_server(user, password)
SqlServer(user, password) ==
    [method |-> "SqlServer", user |-> user, password |-> password]

\* Config::trust_cert: panics when a CA certificate location was set.
TrustCert(cfg) ==
    IF cfg.trust = "CaCertificateLocation"
    THEN [cfg EXCEPT !.panicked = TRUE]
    ELSE [cfg EXCEPT !.trust = "TrustAll"]

\* Config::get_host: a host of "." and no host both mean localhost.
GetHost(cfg) ==
    IF cfg.host.some /\ cfg.host.v # <<".">> THEN cfg.host.v ELSE Localhost

\* mutant of GetPort: the SQL browser port taken as the default
GetPortBrowser(cfg) ==
    IF cfg.port.some THEN cfg.port.v ELSE BrowserPort

\* Config::get_port: the port set, else 1434 with an instance name, else 1433.
GetPort(cfg) ==
    IF cfg.port.some THEN cfg.port.v
    ELSE IF cfg.instance_name.some THEN BrowserPort
    ELSE DefaultPort

\* Config::get_addr: format!("{}:{}", host, port)
GetAddr(cfg) == GetHost(cfg) \o <<":">> \o ToDecimal(GetPort(cfg))

\* Settings::get_sql_settings
GetSqlSettingsOf(s) ==
    LET c1 == [ConfigNew EXCEPT !.host = Some(s.database_server)]
        c2 == [c1 EXCEPT !.application_name = Some(LoginChecker)]
        c3 == [c2 EXCEPT !.database = Some(s.database_name)]
        c4 == [c3 EXCEPT !.auth = SqlServer(s.database_username,
                                            s.database_password)]
        c5 == [c4 EXCEPT !.encryption = "Off"]
    IN  TrustCert(c5)

(***************************************************************************)
(* get_email_destinations: str::split and sendgrid's Email::new            *)
(***************************************************************************)
RECURSIVE SplitFrom(_, _, _)
\* The segments of s from position i on, cur being the segment under way.
SplitFrom(s, i, cur) ==
    IF i > Len(s) THEN <<cur>>
    ELSE IF s[i] = "," THEN <<cur>> \o SplitFrom(s, i + 1, <<>>)
    ELSE SplitFrom(s, i + 1, Append(cur, s[i]))

\* mutant of Split: empty segments dropped
SplitNonEmpty(s) ==
    LET all == SplitFrom(s, 1, <<>>)
    IN  SelectSeq(all, LAMBDA x : x # <<>>)

\* mutant of Split: the segments from right to left
SplitReversed(s) ==
    LET all == SplitFrom(s, 1, <<>>)
    IN  [i \in 1..Len(all) |-> all[Len(all) + 1 - i]]

\* str::split(","): every comma ends a segment, empty segments included.
Split(s) == SplitFrom(s, 1, <<>>)

\* Email::new(address): the address as given, no display name.
EmailNew(x) == [email |-> x, name |-> None]

\* Settings::get_email_destinations
GetEmailDestinationsOf(s) ==
    LET parts == Split(s.email_to_addresses)
    IN  [i \in 1..Len(parts) |-> EmailNew(parts[i])]

(***************************************************************************)
(* Inputs: the values the tests use, and bounded variations of them        *)
(***************************************************************************)
\* The nine keys as the environment's blob spells them.
BlobKeys ==
    <<"DatabaseServer", "DatabaseName", "DatabaseUsername",
      "DatabasePassword", "LogWebhookUri", "SendgridApiKey",
      "EmailFromName", "EmailFromAddress", "EmailToAddresses">>

User1 ==
    <<"u", "s", "e", "r", "1", "@", "e", "x", "a", "m", "p", "l", "e", ".",
      "c", "o", "m">>
User2 ==
    <<"u", "s", "e", "r", "2", "@", "e", "x", "a", "m", "p", "l", "e", ".",
      "c", "o", "m">>

\* The values of mock_env_variable, key by key.
MockValues ==
    << Localhost,
       <<"t", "e", "s", "t", "_", "d", "b">>,
       <<"a", "d", "m", "i", "n">>,
       <<"p", "a", "s", "s", "w", "o", "r", "d", "1", "2", "3">>,
       <<"h", "t", "t", "p", "s", ":", "/", "/", "e", "x", "a", "m", "p", "l",
         "e", ".", "c", "o", "m">>,
       <<"s", "e", "n", "d", "g", "r", "i", "d", "-", "a", "p", "i", "-", "k",
         "e", "y">>,
       <<"T", "e", "s", "t">>,
       <<"t", "e", "s", "t", "@", "e", "x", "a", "m", "p", "l", "e", ".", "c",
         "o", "m">>,
       User1 \o <<",">> \o User2 >>

\* The Settings literal of the tests.
MockSettings ==
    [f \in Fields |->
        MockValues[CHOOSE i \in 1..Len(FieldOrder) : FieldOrder[i] = f]]

\* The members of the blob mock_env_variable sets.
MockMembers ==
    [i \in 1..Len(BlobKeys) |-> Member(BlobKeys[i], JString(MockValues[i]))]

MockDoc == ObjectDoc(MockMembers, FALSE)

RemoveAt(seq, k) == SubSeq(seq, 1, k - 1) \o SubSeq(seq, k + 1, Len(seq))
Reverse(seq) == [i \in 1..Len(seq) |-> seq[Len(seq) + 1 - i]]

RawChars == {"n", Quote, Backslash, "NL"}
RawStrings == StringsUpTo(RawChars, MaxRawLen)
Positions == 1..Len(BlobKeys)

ValueDocs ==
    {ObjectDoc([MockMembers EXCEPT ![k].val = JString(r)], FALSE) :
        k \in Positions, r \in RawStrings}
TypeDocs ==
    {ObjectDoc([MockMembers EXCEPT ![k].val = v], FALSE) :
        k \in Positions, v \in {JNumber, JNull}}
MissingDocs == {ObjectDoc(RemoveAt(MockMembers, k), FALSE) : k \in Positions}
DuplicateDocs ==
    {ObjectDoc(Append(MockMembers, Member(BlobKeys[k], JString(<<"n">>))),
               FALSE) : k \in Positions}
ExtraValues == {JString(<<"n">>), JString(<<Backslash>>), JNumber}
ExtraDocs ==
    {ObjectDoc(<<Member("Extra", v)>> \o MockMembers, FALSE) : v \in ExtraValues}
    \cup {ObjectDoc(MockMembers \o <<Member("Extra", v), Member("Extra", v)>>,
                    FALSE) : v \in ExtraValues}
MockElems == [i \in Positions |-> JString(MockValues[i])]
ArrayDocs ==
    {ArrayDoc(SubSeq(MockElems, 1, n), FALSE) : n \in 0..Len(MockElems)}
    \cup {ArrayDoc(Append(MockElems, JString(<<"n">>)), FALSE),
          ArrayDoc(MockElems, TRUE)}
    \cup {ArrayDoc([MockElems EXCEPT ![k] = JNumber], FALSE) : k \in Positions}
OtherDocs ==
    {MockDoc, ObjectDoc(Reverse(MockMembers), FALSE), ObjectDoc(MockMembers, TRUE),
     ObjectDoc(<<>>, FALSE), GarbageDoc, EmptyDoc, ScalarDoc(JNumber),
     ScalarDoc(JNull), ScalarDoc(JString(<<"n">>))}

Docs ==
    ValueDocs \cup TypeDocs \cup MissingDocs \cup DuplicateDocs \cup ExtraDocs
    \cup ArrayDocs \cup OtherDocs

\* What the process may find in SecretBlob when it starts.
StartValues == {Unset, NotUnicode} \cup {Text(d) : d \in Docs}
\* What the tests set SecretBlob to: the mock blob and "invalid json".
TestValues == {Text(MockDoc), Text(GarbageDoc)}

EnvNames == {"SecretBlob", "PATH"}

(***************************************************************************)
(* State machine                                                           *)
(***************************************************************************)
NoneAll == [c \in Callers |-> None]

InitCallers ==
    /\ pc = [c \in Callers |-> "idle"]
    /\ secret_blob = NoneAll
    /\ result = NoneAll
    /\ sql_settings = NoneAll
    /\ email_destinations = NoneAll
    /\ json = NoneAll
    /\ reparsed = NoneAll
    /\ seen = NoneAll

Init ==
    /\ \E v \in StartValues :
          env = [n \in EnvNames |->
                    IF n = "SecretBlob" THEN v ELSE Text(GarbageDoc)]
    /\ InitCallers

\* env::set_var(name, v), as the tests do between calls
SetVar(name, v) ==
    /\ env[name] # v
    /\ env' = [env EXCEPT ![name] = v]
    /\ UNCHANGED <<pc, secret_blob, result, sql_settings, email_destinations,
                   json, reparsed, seen>>

\* env::remove_var(name)
RemoveVar(name) ==
    /\ env[name] # Unset
    /\ env' = [env EXCEPT ![name] = Unset]
    /\ UNCHANGED <<pc, secret_blob, result, sql_settings, email_destinations,
                   json, reparsed, seen>>

\* mutant of EnvAfterRead: the secret removed once it was read
EnvAfterReadRemoving(e) == [e EXCEPT !["SecretBlob"] = Unset]

\* The environment after get_settings read it: env::var writes nothing.
EnvAfterRead(e) == e

\* get_settings, lines 112-115: the one read of the environment.
ReadEnv(c) ==
    /\ pc[c] = "idle"
    /\ LET r == EnvVar(env["SecretBlob"])
       IN  IF r.tag = "Ok"
           THEN /\ secret_blob' = [secret_blob EXCEPT ![c] = Some(r.val)]
                /\ pc' = [pc EXCEPT ![c] = "parse"]
                /\ UNCHANGED result
           ELSE /\ result' = [result EXCEPT ![c] =
                      Some(Err(<<EnvErrorPrefix>> \o VarErrorDisplay(r.msg)))]
                /\ pc' = [pc EXCEPT ![c] = "done"]
                /\ UNCHANGED secret_blob
    /\ seen' = [seen EXCEPT ![c] = Some(env["SecretBlob"])]
    /\ env' = EnvAfterRead(env)
    /\ UNCHANGED <<sql_settings, email_destinations, json, reparsed>>

\* mutant of BlobToParse: the environment read again at parsing time
BlobToParseReread(c) ==
    IF env["SecretBlob"].state = "set"
    THEN env["SecretBlob"].doc ELSE secret_blob[c].v

\* The text from_str is given: the local secret_blob.
BlobToParse(c) == secret_blob[c].v

\* get_settings, lines 117-127: deserialize the blob and return.
Deserialize(c) ==
    /\ pc[c] = "parse"
    /\ LET r == FromStr(BlobToParse(c))
       IN  result' = [result EXCEPT ![c] =
               Some(IF r.tag = "Ok" THEN Ok(r.val)
                    ELSE Err(<<ParseErrorPrefix>> \o r.msg))]
    /\ secret_blob' = [secret_blob EXCEPT ![c] = None]
    /\ pc' = [pc EXCEPT ![c] = "done"]
    /\ UNCHANGED <<env, sql_settings, email_destinations, json, reparsed, seen>>

HasSettings(c) == pc[c] = "done" /\ result[c].some /\ result[c].v.tag = "Ok"

\* settings.get_sql_settings() on the Settings a caller holds
GetSqlSettings(c) ==
    /\ HasSettings(c)
    /\ ~sql_settings[c].some
    /\ sql_settings' =
          [sql_settings EXCEPT ![c] = Some(GetSqlSettingsOf(result[c].v.val))]
    /\ UNCHANGED <<env, pc, secret_blob, result, email_destinations, json,
                   reparsed, seen>>

\* settings.get_email_destinations() on the Settings a caller holds
GetEmailDestinations(c) ==
    /\ HasSettings(c)
    /\ ~email_destinations[c].some
    /\ email_destinations' =
          [email_destinations EXCEPT ![c] =
              Some(GetEmailDestinationsOf(result[c].v.val))]
    /\ UNCHANGED <<env, pc, secret_blob, result, sql_settings, json,
                   reparsed, seen>>

\* serde_json::to_string(&settings), the derived Serialize
Serialize(c) ==
    /\ HasSettings(c)
    /\ ~json[c].some
    /\ json' = [json EXCEPT ![c] = Some(ToJson(result[c].v.val))]
    /\ UNCHANGED <<env, pc, secret_blob, result, sql_settings,
                   email_destinations, reparsed, seen>>

\* serde_json::from_str on the text Serialize wrote
Reparse(c) ==
    /\ json[c].some
    /\ ~reparsed[c].some
    /\ reparsed' = [reparsed EXCEPT ![c] = Some(FromStr(json[c].v))]
    /\ UNCHANGED <<env, pc, secret_blob, result, sql_settings,
                   email_destinations, json, seen>>

\* The caller drops what it got; it may call again.
Drop(c) ==
    /\ pc[c] = "done"
    /\ pc' = [pc EXCEPT ![c] = "idle"]
    /\ result' = [result EXCEPT ![c] = None]
    /\ sql_settings' = [sql_settings EXCEPT ![c] = None]
    /\ email_destinations' = [email_destinations EXCEPT ![c] = None]
    /\ json' = [json EXCEPT ![c] = None]
    /\ reparsed' = [reparsed EXCEPT ![c] = None]
    /\ seen' = [seen EXCEPT ![c] = None]
    /\ UNCHANGED <<env, secret_blob>>

Next ==
    \/ \E v \in TestValues : SetVar("SecretBlob", v)
    \/ RemoveVar("SecretBlob")
    \/ \E c \in Callers : ReadEnv(c)
    \/ \E c \in Callers : Deserialize(c)
    \/ \E c \in Callers : Drop(c)

\* Concurrent calls of get_settings while the tests write SecretBlob.
Spec == Init /\ [][Next]_vars

\* One thread: it resolves, derives both artifacts, drops them, and writes
\* SecretBlob between calls.
MainThread == CHOOSE c \in Callers : \A d \in Callers : c <= d

NextSequential ==
    \/ /\ pc[MainThread] # "parse"
       /\ \/ \E v \in TestValues : SetVar("SecretBlob", v)
          \/ RemoveVar("SecretBlob")
    \/ ReadEnv(MainThread)
    \/ Deserialize(MainThread)
    \/ GetSqlSettings(MainThread)
    \/ GetEmailDestinations(MainThread)
    \/ Drop(MainThread)

SpecSequential == Init /\ [][NextSequential]_vars

(***************************************************************************)
(* The transformations on a Settings value built directly, as the tests    *)
(* test_get_sql_settings and test_get_email_destinations build it          *)
(***************************************************************************)
\* A caller holding the Settings literal s; SecretBlob plays no part.
InitHolding(s) ==
    /\ env = [n \in EnvNames |-> Unset]
    /\ \E h \in Callers :
          /\ pc = [c \in Callers |-> IF c = h THEN "done" ELSE "idle"]
          /\ result = [c \in Callers |-> IF c = h THEN Some(Ok(s)) ELSE None]
    /\ secret_blob = NoneAll
    /\ sql_settings = NoneAll
    /\ email_destinations = NoneAll
    /\ json = NoneAll
    /\ reparsed = NoneAll
    /\ seen = NoneAll

HostChars == {".", "a"}
HostStrings == StringsUpTo(HostChars, MaxHostLen)
SqlInputs ==
    {[[MockSettings EXCEPT ![f1] = s1] EXCEPT ![f2] = s2] :
        f1 \in Fields, f2 \in Fields, s1 \in HostStrings, s2 \in HostStrings}

InitSql == \E s \in SqlInputs : InitHolding(s)
NextSql == \E c \in Callers : GetSqlSettings(c)
SpecSql == InitSql /\ [][NextSql]_vars

AddrChars == {"a", ",", " "}
AddrStrings ==
    StringsUpTo(AddrChars, MaxAddrLen)
    \cup {MockSettings.email_to_addresses, User1}
EmailInputs == {[MockSettings EXCEPT !.email_to_addresses = a] : a \in AddrStrings}

InitEmail == \E s \in EmailInputs : InitHolding(s)
NextEmail == \E c \in Callers : GetEmailDestinations(c)
SpecEmail == InitEmail /\ [][NextEmail]_vars

ValueStrings == StringsUpTo(RawChars, MaxValueLen)
RoundTripInputs ==
    {[MockSettings EXCEPT ![f] = s] : f \in Fields, s \in ValueStrings}
    \cup {[f \in Fields |-> s] : s \in ValueStrings}

InitRoundTrip == \E s \in RoundTripInputs : InitHolding(s)
NextRoundTrip ==
    \/ \E c \in Callers : Serialize(c)
    \/ \E c \in Callers : Reparse(c)
SpecRoundTrip == InitRoundTrip /\ [][NextRoundTrip]_vars

(***************************************************************************)
(* Properties                                                              *)
(***************************************************************************)
Done(c) == pc[c] = "done" /\ result[c].some /\ seen[c].some
Returned(c) == result[c].v
SawText(c) == Done(c) /\ seen[c].v.state = "set"
SeenDoc(c) == seen[c].v.doc

\* A JSON value that is syntactically valid.
ValidValue(v) == v.t # "string" \/ Unescape(v.raw).tag = "Ok"
\* A text that is one syntactically valid JSON object and nothing more.
WellFormedObject(doc) ==
    /\ doc.kind = "object"
    /\ ~doc.trailing
    /\ \A i \in 1..Len(doc.members) : ValidValue(doc.members[i].val)
\* The members of doc that carry key k with a string value.
StringMembers(doc, k) ==
    {i \in 1..Len(doc.members) :
        doc.members[i].key = k /\ doc.members[i].val.t = "string"}
Occurrences(doc, k) == {i \in 1..Len(doc.members) : doc.members[i].key = k}
\* doc supplies each of the nine keys with a string value.
SuppliesAllKeys(doc) ==
    /\ WellFormedObject(doc)
    /\ \A k \in Positions : StringMembers(doc, BlobKeys[k]) # {}
\* ... and each of them once only.
SuppliesAllKeysOnce(doc) ==
    /\ SuppliesAllKeys(doc)
    /\ \A k \in Positions : Cardinality(Occurrences(doc, BlobKeys[k])) = 1
\* Field k of the returned Settings is a string stored under key k.
FieldFromKey(doc, r, k) ==
    \E i \in StringMembers(doc, BlobKeys[k]) :
        Ok(r.val[FieldOrder[k]]) = Unescape(doc.members[i].val.raw)

C2_UnsetGivesEnvironmentError ==
    \A c \in Callers :
        /\ (pc[c] = "parse" => secret_blob[c].some)
        /\ (seen[c].some /\ seen[c].v = Unset) =>
              /\ pc[c] = "done"
              /\ ~secret_blob[c].some
              /\ result[c] = Some(Err(<<"Error getting env variable: ",
                                        "environment variable not found">>))
              /\ ErrorKind(Returned(c).msg) = "EnvironmentError"

C2_Witness ==
    \E c \in Callers : Done(c) /\ seen[c].v = Unset /\ Returned(c).tag = "Err"

\* C3: a call that found SecretBlob set to a text that is not a JSON object
\* supplying the nine keys as strings returns a ParseError, message
\* "Could not deserialize settings blob: " and the parser's message.
C3_AsStated ==
    \A c \in Callers :
        (SawText(c) /\ ~SuppliesAllKeys(SeenDoc(c))) =>
            /\ Returned(c).tag = "Err"
            /\ ErrorKind(Returned(c).msg) = "ParseError"
            /\ Returned(c).msg = <<ParseErrorPrefix>> \o FromStr(SeenDoc(c)).msg

\* What a call returns for the value v of SecretBlob.
Outcome(v) ==
    CASE v.state = "unset" ->
            Err(<<EnvErrorPrefix, "environment variable not found">>)
      [] v.state = "not unicode" ->
            Err(<<EnvErrorPrefix,
                  "environment variable was not valid unicode: ", "..">>)
      [] v.state = "set" ->
            LET r == FromStr(v.doc)
            IN  IF r.tag = "Ok" THEN r ELSE Err(<<ParseErrorPrefix>> \o r.msg)

\* C7: under every interleaving of callers and of writers of SecretBlob,
\* what a call returns is decided by the value SecretBlob held at that
\* call's one read, whatever the environment holds later and whatever the
\* other caller read or got.
C7_ResultDecidedByOwnRead ==
    \A c \in Callers : Done(c) => Returned(c) = Outcome(seen[c].v)

C7_Witness ==
    \E c, d \in Callers :
        /\ Done(c) /\ Done(d)
        /\ Returned(c).tag = "Ok"
        /\ Returned(d).tag = "Err"
        /\ env["SecretBlob"] # seen[c].v
        /\ env["SecretBlob"] # seen[d].v

StepOf(c) ==
    \/ pc'[c] # pc[c]
    \/ sql_settings'[c] # sql_settings[c]
    \/ email_destinations'[c] # email_destinations[c]

\* C10: no step of get_settings, get_sql_settings or get_email_destinations
\* changes any environment variable; a finished call holds a Settings, an
\* EnvironmentError or a ParseError; and the two transformations leave the
\* Settings they are given as it was.
C10_NoSideEffects ==
    /\ [][(\E c \in Callers : StepOf(c)) => env' = env]_vars
    /\ [][\A c \in Callers :
            (pc'[c] = pc[c] /\ (sql_settings'[c] # sql_settings[c]
                                \/ email_destinations'[c] # email_destinations[c]))
                => result'[c] = result[c]]_vars
    /\ [](\A c \in Callers :
            /\ pc[c] \in {"idle", "parse", "done"}
            /\ pc[c] = "done" =>
                  /\ result[c].some
                  /\ \/ Returned(c).tag = "Ok"
                     \/ /\ Returned(c).tag = "Err"
                        /\ ErrorKind(Returned(c).msg)
                               \in {"EnvironmentError", "ParseError"})

C10_Witness ==
    \E c \in Callers :
        /\ Done(c)
        /\ Returned(c).tag = "Ok"
        /\ sql_settings[c].some
        /\ email_destinations[c].some
        /\ env["SecretBlob"] = seen[c].v

Held(c) == result[c].v.val
Port1433 == <<":", "1", "4", "3", "3">>

\* C4 as stated: for every Settings the address is database_server
\* followed by ":1433".
C4_AsStated ==
    \A c \in Callers :
        sql_settings[c].some =>
            GetAddr(sql_settings[c].v) = Held(c).database_server \o Port1433

\* C4 amended: the host is database_server and no port is set, so the
\* port is 1433; the address is database_server followed by ":1433",
\* except that a database_server of "." is rendered as "localhost:1433".
C4_AddressIsServerAndDefaultPort ==
    \A c \in Callers :
        sql_settings[c].some =>
            LET cfg == sql_settings[c].v
                server == Held(c).database_server
            IN  /\ cfg.host = Some(server)
                /\ cfg.port = None
                /\ GetPort(cfg) = 1433
                /\ GetAddr(cfg) =
                      (IF server = <<".">> THEN Localhost ELSE server)
                          \o Port1433

C4_Witness ==
    \E c \in Callers :
        /\ sql_settings[c].some
        /\ Held(c).database_server = <<"a", ".">>
        /\ Held(c).database_name # MockSettings.database_name
        /\ GetAddr(sql_settings[c].v) = <<"a", ".", ":", "1", "4", "3", "3">>

\* C8: for every Settings, empty fields included, the configuration has
\* database = database_name, SQL-server authentication with
\* database_username and database_password, encryption Off, every server
\* certificate trusted and the application name "Login Checker"; the call
\* does not panic and is possible on every Settings.
C8_ConfigFields ==
    \A c \in Callers :
        /\ (HasSettings(c) /\ ~sql_settings[c].some) => ENABLED GetSqlSettings(c)
        /\ sql_settings[c].some =>
              LET cfg == sql_settings[c].v
              IN  /\ cfg.database = Some(Held(c).database_name)
                  /\ cfg.auth.method = "SqlServer"
                  /\ cfg.auth.user = Held(c).database_username
                  /\ cfg.auth.password = Held(c).database_password
                  /\ cfg.encryption = "Off"
                  /\ cfg.trust = "TrustAll"
                  /\ cfg.application_name = Some(LoginChecker)
                  /\ ~cfg.panicked

C8_Witness ==
    \E c \in Callers :
        /\ sql_settings[c].some
        /\ Held(c).database_name = <<>>
        /\ Held(c).database_password = <<>>
        /\ sql_settings[c].v.auth.user = MockSettings.database_username

RECURSIVE Join(_)
\* The strings of a sequence with "," between them.
Join(parts) ==
    IF Len(parts) = 1 THEN parts[1]
    ELSE parts[1] \o <<",">> \o Join(Tail(parts))

Addresses(c) ==
    [i \in 1..Len(email_destinations[c].v) |-> email_destinations[c].v[i].email]

\* C5: the recipients are the comma-delimited segments of
\* email_to_addresses from left to right: no address holds a comma, none
\* has a display name, and joined with "," they give email_to_addresses.
C5_SegmentsInOrder ==
    \A c \in Callers :
        email_destinations[c].some =>
            /\ Len(email_destinations[c].v) >= 1
            /\ \A i \in 1..Len(email_destinations[c].v) :
                  /\ \A j \in 1..Len(Addresses(c)[i]) : Addresses(c)[i][j] # ","
                  /\ email_destinations[c].v[i].name = None
            /\ Join(Addresses(c)) = Held(c).email_to_addresses
            /\ Held(c).email_to_addresses = User1 \o <<",">> \o User2
                  => Addresses(c) = <<User1, User2>>

C5_Witness ==
    \E c \in Callers :
        /\ email_destinations[c].some
        /\ Held(c).email_to_addresses = User1 \o <<",">> \o User2
        /\ Addresses(c) = <<User1, User2>>

Commas(s) == {i \in 1..Len(s) : s[i] = ","}
\* Where segment n of s starts and ends: after the (n-1)-th comma, before
\* the n-th.
SegmentStart(s, n) ==
    IF n = 1 THEN 1
    ELSE 1 + CHOOSE i \in Commas(s) :
                 Cardinality({j \in Commas(s) : j < i}) = n - 2
SegmentEnd(s, n) ==
    IF n = Cardinality(Commas(s)) + 1 THEN Len(s)
    ELSE (CHOOSE i \in Commas(s) :
              Cardinality({j \in Commas(s) : j < i}) = n - 1) - 1

\* C9: one entry per segment, nothing trimmed or dropped: the number of
\* entries is the number of commas plus one, and entry n is the text
\* between the (n-1)-th and the n-th comma, empty or blank as it may be.
C9_OneEntryPerSegment ==
    \A c \in Callers :
        email_destinations[c].some =>
            LET s == Held(c).email_to_addresses
            IN  /\ Len(Addresses(c)) = Cardinality(Commas(s)) + 1
                /\ \A n \in 1..Len(Addresses(c)) :
                      Addresses(c)[n] =
                          SubSeq(s, SegmentStart(s, n), SegmentEnd(s, n))
                /\ s = <<>> => Addresses(c) = << <<>> >>

C9_Witness ==
    \E c \in Callers :
        /\ email_destinations[c].some
        /\ Held(c).email_to_addresses = <<",", " ", "a", ",">>
        /\ Addresses(c) = << <<>>, <<" ", "a">>, <<>> >>

\* C6: a Settings value written as JSON under the PascalCase schema and
\* parsed back gives Ok and the same nine fields.
C6_RoundTrip ==
    \A c \in Callers :
        /\ json[c].some =>
              /\ json[c].v.kind = "object"
              /\ {json[c].v.members[i].key : i \in 1..Len(json[c].v.members)}
                    = {BlobKeys[k] : k \in Positions}
        /\ reparsed[c].some => reparsed[c].v = Ok(Held(c))

C6_Witness ==
    \E c \in Callers :
        /\ reparsed[c].some
        /\ reparsed[c].v.tag = "Ok"
        /\ Held(c).database_password = <<Backslash, "n", Quote>>
        /\ Held(c).database_server = Localhost

=============================================================================
